---- MODULE Spec2Model ----
(***************************************************************************)
(* Model of deployment/deploy.py: the command line tool that creates,      *)
(* tests and deletes the Travel Concierge agent on Vertex AI Agent Engine. *)
(*                                                                         *)
(* The remote platform (aiplatform, the storage client, the reasoning      *)
(* engine client) is the environment: every call into it either returns or *)
(* raises, chosen nondeterministically.                                    *)
(***************************************************************************)
EXTENDS Integers, Sequences, FiniteSets, TLC

VARIABLES
    pc,           \* position of the process in main / the running function
    args,         \* argparse namespace (line 219)
    env,          \* os.environ entries read by main
    project_id,   \* main: resolved project id (line 222)
    bucket_name,  \* main: resolved bucket name (line 223)
    resource_id,  \* parameter of test_agent_engine / delete_agent_engine
    parts,        \* resource_id.split('/')
    aiplatform,   \* arguments of the last aiplatform.init call
    tree,         \* the directory tree below root_dir
    archive,      \* arcnames written to the zip file, in order
    tmpFile,      \* the NamedTemporaryFile: "none", "exists" or "deleted"
    gcsObjects,   \* number of objects the tool has put in the bucket
    engines,      \* reasoning engines created minus reasoning engines deleted
    chunks,       \* response chunks still to be produced by the stream
    trace,        \* side-effecting steps executed so far, in order
    ops,          \* operations (create/test/delete) that were entered
    stdout,       \* printed lines, as tags, in order
    stderr,       \* lines on stderr (the interpreter's traceback)
    exc,          \* exception propagating out of the current function
    ret,          \* value returned by the last finished function
    exitCode      \* process exit status, NoExit while running

vars == <<pc, args, env, project_id, bucket_name, resource_id, parts,
          aiplatform, tree, archive, tmpFile, gcsObjects, engines, chunks,
          trace, ops, stdout, stderr, exc, ret, exitCode>>

-----------------------------------------------------------------------------
(* Bounds of the model *)

\* longest resource handle, in characters
MaxHandleLen == 7

\* most chunks one query response streams
MaxChunks == 2

-----------------------------------------------------------------------------
(* Python values *)

\* An optional string: None, or a str (possibly empty).
None == [some |-> FALSE, s |-> ""]

Some(str) == [some |-> TRUE, s |-> str]

\* Python truthiness of an Optional[str]: None and "" are falsy.
Truthy(o) == o.some /\ o.s # ""

\* The same for a string held as a tuple of characters (a resource handle).
NoHandle == [some |-> FALSE, s |-> <<>>]

TruthyHandle(o) == o.some /\ Len(o.s) > 0

\* Python `a or b`.
OrElse(a, b) == IF Truthy(a) THEN a ELSE b

NoExit == -1

\* the characters resource handles are written in
HandleChars == {"/", "P", "L"}

\* the separator of resource_id.split('/')
Sep == "/"

RECURSIVE Split(_)
\* str.split('/') on a string given as a tuple of characters: the list of
\* the segments between separators; the empty string yields [''].
Split(str) ==
    IF str = <<>> THEN << <<>> >>
    ELSE LET rest == Split(Tail(str)) IN
         IF Head(str) = Sep
         THEN << <<>> >> \o rest
         ELSE << <<Head(str)>> \o Head(rest) >> \o Tail(rest)

\* parts[i] raises IndexError exactly when i is not below len(parts).
InRange(lst, i) == i < Len(lst)

\* indexing that counts from one
IndexFromOne(lst, i) == lst[i]

\* parts[i], Python 0-based
Index(lst, i) == lst[i + 1]

-----------------------------------------------------------------------------
(* The file system below root_dir, and the packager's view of it *)

\* A file name is <<prefix, ending>>, the ending running from the last dot.
TravelConcierge == <<"travel_concierge", "">>

PyProject == <<"pyproject", ".toml">>

Readme == <<"README", ".md">>

\* root_dir itself, an absolute path (line 66)
RootDir == << <<"", "">>, <<"repo", "">> >>

\* the paths (relative to root_dir) a tree is drawn from
Universe ==
    { [path |-> <<TravelConcierge>>, kind |-> "dir"],
      [path |-> <<TravelConcierge, <<"a", ".py">> >>, kind |-> "file"],
      [path |-> <<TravelConcierge, <<"c", ".txt">> >>, kind |-> "file"],
      [path |-> <<TravelConcierge, <<"d", ".py">> >>, kind |-> "dir"],
      [path |-> <<TravelConcierge, <<"sub", "">> >>, kind |-> "dir"],
      [path |-> <<TravelConcierge, <<"sub", "">>, <<"b", ".py">> >>, kind |-> "file"],
      [path |-> <<PyProject>>, kind |-> "file"],
      [path |-> <<Readme>>, kind |-> "file"] }

Parent(path) == SubSeq(path, 1, Len(path) - 1)

\* a tree holds the directory of each of its nodes
WellFormed(t) ==
    \A n \in t : Len(n.path) > 1 =>
        [path |-> Parent(n.path), kind |-> "dir"] \in t

Trees == { t \in SUBSET Universe : WellFormed(t) }

IsPrefix(p, q) == Len(p) <= Len(q) /\ SubSeq(q, 1, Len(p)) = p

\* Path.exists()
Exists(t, path) == \E n \in t : n.path = path

\* fnmatch of a name against '*.py'
MatchesPy(name) == name[2] = ".py"

\* (root_dir / 'travel_concierge').rglob('*.py') (line 69): every path
\* strictly below the directory whose last component matches, whatever
\* its kind; nothing when the directory does not exist.
RGlobPy(t) ==
    { n \in t : /\ IsPrefix(<<TravelConcierge>>, n.path)
                /\ Len(n.path) > 1
                /\ MatchesPy(n.path[Len(n.path)]) }

\* root_dir / path
AbsPath(path) == RootDir \o path

\* file_path.relative_to(root_dir) (line 70)
RelativeTo(path, base) == SubSeq(path, Len(base) + 1, Len(path))

\* zipf.write(file_path, arcname): one entry; a directory gets a
\* directory entry.
Entry(arcname, kind) == [arcname |-> arcname, isdir |-> kind = "dir"]

RECURSIVE SetToSeq(_)
\* the order in which the traversal yields its matches
SetToSeq(S) ==
    IF S = {} THEN <<>>
    ELSE LET x == CHOOSE y \in S : TRUE IN <<x>> \o SetToSeq(S \ {x})

\* config_files (line 74)
ConfigFiles == <<PyProject, Readme>>

KindOf(t, path) == (CHOOSE n \in t : n.path = path).kind

\* the entries of lines 69-71
SourceEntries(t) ==
    LET found == SetToSeq(RGlobPy(t)) IN
    [i \in 1..Len(found) |->
        Entry(RelativeTo(AbsPath(found[i].path), RootDir), found[i].kind)]

\* the entries of lines 74-78
ConfigEntries(t) ==
    LET present == SelectSeq(ConfigFiles, LAMBDA c : Exists(t, <<c>>)) IN
    [i \in 1..Len(present) |-> Entry(<<present[i]>>, KindOf(t, <<present[i]>>))]

\* everything the zip file holds when it is closed (lines 64-78)
PackageArchive(t) == SourceEntries(t) \o ConfigEntries(t)

-----------------------------------------------------------------------------
(* Inputs *)

\* every resource handle of at most MaxHandleLen characters
Handles == UNION { [1..n -> HandleChars] : n \in 0..MaxHandleLen }

\* --resource_id as main is given it: absent, empty, one segment, four
\* segments, six segments
MainResourceIds ==
    { NoHandle,
      [some |-> TRUE, s |-> <<>>],
      [some |-> TRUE, s |-> <<"P">>],
      [some |-> TRUE, s |-> <<"/", "P", "/", "/", "L">>],
      [some |-> TRUE, s |-> <<"/", "P", "/", "/", "L", "/", "/">>] }

\* the trees main is run on: an empty root_dir and a full one
MainTrees == { {}, Universe }

\* default of --location (line 215)
DefaultLocation == "us-central1"

Namespaces ==
    [ create : BOOLEAN, quicktest : BOOLEAN, delete : BOOLEAN,
      resource_id : MainResourceIds,
      project_id : {None, Some(""), Some("p1")},
      bucket : {None, Some(""), Some("b1")},
      location : {DefaultLocation} ]

Environments ==
    [ GOOGLE_CLOUD_PROJECT : {None, Some(""), Some("p2")},
      GOOGLE_CLOUD_STORAGE_BUCKET : {None, Some(""), Some("b2")} ]

\* the namespace of an invocation without arguments
NoArgs ==
    [ create |-> FALSE, quicktest |-> FALSE, delete |-> FALSE,
      resource_id |-> NoHandle, project_id |-> None, bucket |-> None,
      location |-> DefaultLocation ]

NoEnv == [ GOOGLE_CLOUD_PROJECT |-> None, GOOGLE_CLOUD_STORAGE_BUCKET |-> None ]

\* nothing has run yet
Fresh ==
    /\ parts = <<>>
    /\ aiplatform = <<>>
    /\ archive = <<>>
    /\ tmpFile = "none"
    /\ gcsObjects = 0
    /\ engines = 0
    /\ chunks = 0
    /\ trace = <<>>
    /\ ops = {}
    /\ stdout = <<>>
    /\ stderr = <<>>
    /\ exc = "none"
    /\ ret = "none"
    /\ exitCode = NoExit

\* the process has parsed its arguments and is about to resolve its
\* configuration
Init ==
    /\ pc = "main"
    /\ args \in Namespaces
    /\ env \in Environments
    /\ tree \in MainTrees
    /\ project_id = None
    /\ bucket_name = None
    /\ resource_id = <<>>
    /\ Fresh

\* a caller is about to call create_agent_engine with a resolved
\* configuration and any tree
InitCreate ==
    /\ pc = "create_init"
    /\ args = NoArgs
    /\ env = NoEnv
    /\ tree \in Trees
    /\ project_id = Some("p1")
    /\ bucket_name = Some("b1")
    /\ resource_id = <<>>
    /\ Fresh

\* a caller is about to call test_agent_engine or delete_agent_engine
\* with any handle
InitHandle ==
    /\ pc \in {"test_parse", "delete_parse"}
    /\ args = NoArgs
    /\ env = NoEnv
    /\ tree = {}
    /\ project_id = None
    /\ bucket_name = None
    /\ resource_id \in Handles
    /\ Fresh

InitCall == InitCreate \/ InitHandle

-----------------------------------------------------------------------------
(* main: configuration and dispatch *)

Out(line) == stdout' = Append(stdout, line)

\* sys.exit(code), or main returning (code 0)
Exit(code) == pc' = "exit" /\ exitCode' = code

\* lines 222-237
ResolveConfig ==
    /\ pc = "main"
    /\ LET p == OrElse(args.project_id, env.GOOGLE_CLOUD_PROJECT)
           b == OrElse(args.bucket, env.GOOGLE_CLOUD_STORAGE_BUCKET)
       IN /\ project_id' = p
          /\ bucket_name' = b
          /\ IF ~Truthy(p)
             THEN Out("err:project_id") /\ Exit(1)
             ELSE IF ~Truthy(b)
             THEN Out("err:bucket") /\ Exit(1)
             ELSE Out("configuration") /\ pc' = "dispatch"
                  /\ UNCHANGED exitCode
    /\ UNCHANGED <<args, env, resource_id, parts, aiplatform, tree, archive,
                   tmpFile, gcsObjects, engines, chunks, trace, ops, stderr,
                   exc, ret>>

\* a check that accepts the empty string: `is None` instead of `not`
MissingOnlyIfNone(o) == ~o.some

\* `not args.resource_id` (lines 257, 266)
Missing(o) == ~TruthyHandle(o)

\* the help branch ending in an error status
ShowHelpAsError == Out("help") /\ Exit(1)

\* lines 274-275: parser.print_help(), then main returns
ShowHelp == Out("help") /\ Exit(0)

\* lines 239, 256-259, 265-268, 274-275
Dispatch ==
    /\ pc = "dispatch"
    /\ IF args.create
       THEN /\ pc' = "create_init"
            /\ ops' = ops \cup {"create"}
            /\ UNCHANGED <<resource_id, stdout, exitCode>>
       ELSE IF args.quicktest
       THEN IF Missing(args.resource_id)
            THEN Out("err:resource_id:test") /\ Exit(1)
                 /\ UNCHANGED <<resource_id, ops>>
            ELSE /\ pc' = "test_parse"
                 /\ resource_id' = args.resource_id.s
                 /\ ops' = ops \cup {"test"}
                 /\ UNCHANGED <<stdout, exitCode>>
       ELSE IF args.delete
       THEN IF Missing(args.resource_id)
            THEN Out("err:resource_id:delete") /\ Exit(1)
                 /\ UNCHANGED <<resource_id, ops>>
            ELSE /\ pc' = "delete_parse"
                 /\ resource_id' = args.resource_id.s
                 /\ ops' = ops \cup {"delete"}
                 /\ UNCHANGED <<stdout, exitCode>>
       ELSE ShowHelp /\ UNCHANGED <<resource_id, ops>>
    /\ UNCHANGED <<args, env, project_id, bucket_name, parts, aiplatform,
                   tree, archive, tmpFile, gcsObjects, engines, chunks,
                   trace, stderr, exc, ret>>

-----------------------------------------------------------------------------
(* create_agent_engine *)

\* a side-effecting step and whether it returned
Step(name, ok) == [step |-> name, ok |-> ok]

Did(name, ok) == trace' = Append(trace, Step(name, ok))

\* how often a step was executed
StepCount(name) == Cardinality({ i \in DOMAIN trace : trace[i].step = name })

\* the step was executed and returned
Returned(name) == \E i \in DOMAIN trace : trace[i] = Step(name, TRUE)

\* the step was executed and raised
Failed(name) == \E i \in DOMAIN trace : trace[i] = Step(name, FALSE)

\* the exception leaves the function
Raise(at, e) == pc' = at /\ exc' = e

\* lines 54-57: aiplatform.init
CreateInit ==
    /\ pc = "create_init"
    /\ aiplatform' = [project |-> project_id.s, location |-> args.location]
    /\ \E ok \in BOOLEAN :
        /\ Did("init", ok)
        /\ IF ok
           THEN Out("uploading") /\ pc' = "create_build" /\ UNCHANGED exc
           ELSE Raise("create_ret", "Exception") /\ UNCHANGED stdout
    /\ UNCHANGED <<args, env, project_id, bucket_name, resource_id, parts,
                   tree, archive, tmpFile, gcsObjects, engines, chunks, ops,
                   stderr, ret, exitCode>>

\* lines 63-78: the temporary file is created and the zip file written;
\* a write that raises leaves the entries written before it
BuildArchive ==
    /\ pc = "create_build"
    /\ tmpFile' = "exists"
    /\ LET full == PackageArchive(tree) IN
       \/ /\ archive' = full
          /\ Did("build", TRUE)
          /\ pc' = "create_upload"
          /\ UNCHANGED exc
       \/ \E k \in 0..(Len(full) - 1) :
          /\ archive' = SubSeq(full, 1, k)
          /\ Did("build", FALSE)
          /\ Raise("create_ret", "Exception")
    /\ UNCHANGED <<args, env, project_id, bucket_name, resource_id, parts,
                   aiplatform, tree, gcsObjects, engines, chunks, ops,
                   stdout, stderr, ret, exitCode>>

\* an upload that is tried a second time when it raises
UploadWithRetry ==
    /\ pc = "create_upload"
    /\ \E ok \in BOOLEAN :
        /\ Did("upload", ok)
        /\ IF ok
           THEN /\ gcsObjects' = gcsObjects + 1
                /\ pc' = "create_unlink"
                /\ UNCHANGED exc
           ELSE IF StepCount("upload") = 0
           THEN UNCHANGED <<pc, exc, gcsObjects>>
           ELSE Raise("create_ret", "Exception") /\ UNCHANGED gcsObjects
    /\ UNCHANGED <<args, env, project_id, bucket_name, resource_id, parts,
                   aiplatform, tree, archive, tmpFile, engines, chunks, ops,
                   stdout, stderr, ret, exitCode>>

\* lines 81-82 and 34-42: upload_to_gcs
Upload ==
    /\ pc = "create_upload"
    /\ \E ok \in BOOLEAN :
        /\ Did("upload", ok)
        /\ IF ok
           THEN /\ gcsObjects' = gcsObjects + 1
                /\ pc' = "create_unlink"
                /\ UNCHANGED exc
           ELSE Raise("create_ret", "Exception") /\ UNCHANGED gcsObjects
    /\ UNCHANGED <<args, env, project_id, bucket_name, resource_id, parts,
                   aiplatform, tree, archive, tmpFile, engines, chunks, ops,
                   stdout, stderr, ret, exitCode>>

\* an unlink that leaves the file in place
OsUnlinkKeeps(f) == f

\* os.unlink on an existing file (line 85)
OsUnlink(f) == "deleted"

\* lines 85-90: os.unlink(tmp_file.name)
Unlink ==
    /\ pc = "create_unlink"
    /\ tmpFile' = OsUnlink(tmpFile)
    /\ Did("unlink", TRUE)
    /\ stdout' = stdout \o <<"uploaded", "creating">>
    /\ pc' = "create_request"
    /\ UNCHANGED <<args, env, project_id, bucket_name, resource_id, parts,
                   aiplatform, tree, archive, gcsObjects, engines, chunks,
                   ops, stderr, exc, ret, exitCode>>

\* lines 92-121: the client is built and create_reasoning_engine called
CreateRequest ==
    /\ pc = "create_request"
    /\ \E ok \in BOOLEAN :
        /\ Did("create_request", ok)
        /\ IF ok
           THEN Out("waiting") /\ pc' = "create_wait" /\ UNCHANGED exc
           ELSE Raise("create_ret", "Exception") /\ UNCHANGED stdout
    /\ UNCHANGED <<args, env, project_id, bucket_name, resource_id, parts,
                   aiplatform, tree, archive, tmpFile, gcsObjects, engines,
                   chunks, ops, stderr, ret, exitCode>>

\* a wait whose exception is swallowed
CreateWaitSwallows ==
    /\ pc = "create_wait"
    /\ \E ok \in BOOLEAN :
        /\ Did("wait", ok)
        /\ engines' = IF ok THEN engines + 1 ELSE engines
        /\ pc' = "create_name"
        /\ UNCHANGED exc
    /\ UNCHANGED <<args, env, project_id, bucket_name, resource_id, parts,
                   aiplatform, tree, archive, tmpFile, gcsObjects, chunks,
                   ops, stdout, stderr, ret, exitCode>>

\* lines 122-123: operation.result() blocks until the engine exists
CreateWait ==
    /\ pc = "create_wait"
    /\ \E ok \in BOOLEAN :
        /\ Did("wait", ok)
        /\ IF ok
           THEN /\ engines' = engines + 1
                /\ pc' = "create_name"
                /\ UNCHANGED exc
           ELSE Raise("create_ret", "Exception") /\ UNCHANGED engines
    /\ UNCHANGED <<args, env, project_id, bucket_name, resource_id, parts,
                   aiplatform, tree, archive, tmpFile, gcsObjects, chunks,
                   ops, stdout, stderr, ret, exitCode>>

\* lines 126-130: the resource name is printed and returned
CreateReturn ==
    /\ pc = "create_name"
    /\ stdout' = stdout \o <<"created", "resource_id">>
    /\ ret' = "resource_name"
    /\ pc' = "create_ret"
    /\ UNCHANGED <<args, env, project_id, bucket_name, resource_id, parts,
                   aiplatform, tree, archive, tmpFile, gcsObjects, engines,
                   chunks, trace, ops, stderr, exc, exitCode>>

\* lines 240-254: main's try/except around create_agent_engine
MainAfterCreate ==
    /\ pc = "create_ret"
    /\ IF exc = "none"
       THEN /\ stdout' = stdout \o <<"success", "resource_id", "how_to_test">>
            /\ Exit(0)
            /\ UNCHANGED exc
       ELSE /\ Out("err:create")
            /\ exc' = "none"
            /\ Exit(1)
    /\ UNCHANGED <<args, env, project_id, bucket_name, resource_id, parts,
                   aiplatform, tree, archive, tmpFile, gcsObjects, engines,
                   chunks, trace, ops, stderr, ret>>

-----------------------------------------------------------------------------
(* test_agent_engine *)

\* the function returns value v
Return(at, v) == pc' = at /\ ret' = v

\* lines 135-141: the handle is split and indexes 1, 3 and 5 are read
TestParse ==
    /\ pc = "test_parse"
    /\ Out("testing")
    /\ parts' = Split(resource_id)
    /\ IF InRange(parts', 1) /\ InRange(parts', 3) /\ InRange(parts', 5)
       THEN pc' = "test_init" /\ UNCHANGED exc
       ELSE Raise("test_ret", "IndexError")
    /\ UNCHANGED <<args, env, project_id, bucket_name, resource_id,
                   aiplatform, tree, archive, tmpFile, gcsObjects, engines,
                   chunks, trace, ops, stderr, ret, exitCode>>

\* line 144: aiplatform.init, outside the try block
TestInit ==
    /\ pc = "test_init"
    /\ aiplatform' = [project |-> Index(parts, 1), location |-> Index(parts, 3)]
    /\ \E ok \in BOOLEAN :
        /\ Did("init", ok)
        /\ IF ok
           THEN pc' = "test_client" /\ UNCHANGED exc
           ELSE Raise("test_ret", "Exception")
    /\ UNCHANGED <<args, env, project_id, bucket_name, resource_id, parts,
                   tree, archive, tmpFile, gcsObjects, engines, chunks, ops,
                   stdout, stderr, ret, exitCode>>

\* lines 147-159: the client is built, outside the try block
TestClient ==
    /\ pc = "test_client"
    /\ \E ok \in BOOLEAN :
        /\ Did("client", ok)
        /\ IF ok
           THEN pc' = "test_request" /\ UNCHANGED exc
           ELSE Raise("test_ret", "Exception")
    /\ UNCHANGED <<args, env, project_id, bucket_name, resource_id, parts,
                   aiplatform, tree, archive, tmpFile, gcsObjects, engines,
                   chunks, ops, stdout, stderr, ret, exitCode>>

\* lines 161-165 and 172-174: the query, inside the try block
TestQuery ==
    /\ pc = "test_request"
    /\ \E ok \in BOOLEAN :
        /\ Did("query", ok)
        /\ IF ok
           THEN /\ Out("response")
                /\ chunks' \in 0..MaxChunks
                /\ pc' = "test_iter"
                /\ UNCHANGED ret
           ELSE /\ Out("err:test")
                /\ Return("test_ret", "False")
                /\ UNCHANGED chunks
    /\ UNCHANGED <<args, env, project_id, bucket_name, resource_id, parts,
                   aiplatform, tree, archive, tmpFile, gcsObjects, engines,
                   ops, stderr, exc, exitCode>>

\* lines 166-176: one round of the loop over the response stream
TestIterate ==
    /\ pc = "test_iter"
    /\ \/ /\ chunks > 0
          /\ chunks' = chunks - 1
          /\ \E content \in BOOLEAN, metadata \in BOOLEAN :
               stdout' = stdout \o (IF content THEN <<"content">> ELSE <<>>)
                                \o (IF metadata THEN <<"metadata">> ELSE <<>>)
          /\ UNCHANGED <<pc, ret>>
       \/ /\ chunks > 0
          /\ Out("err:test")
          /\ Return("test_ret", "False")
          /\ UNCHANGED chunks
       \/ /\ chunks = 0
          /\ Return("test_ret", "True")
          /\ UNCHANGED <<chunks, stdout>>
    /\ UNCHANGED <<args, env, project_id, bucket_name, resource_id, parts,
                   aiplatform, tree, archive, tmpFile, gcsObjects, engines,
                   trace, ops, stderr, exc, exitCode>>

\* lines 261-263
MainAfterTest ==
    /\ pc = "test_ret"
    /\ exc = "none"
    /\ Exit(IF ret = "True" THEN 0 ELSE 1)
    /\ UNCHANGED <<args, env, project_id, bucket_name, resource_id, parts,
                   aiplatform, tree, archive, tmpFile, gcsObjects, engines,
                   chunks, trace, ops, stdout, stderr, exc, ret>>

-----------------------------------------------------------------------------
(* delete_agent_engine *)

\* lines 181-187: the handle is split and indexes 1, 3 and 5 are read
DeleteParse ==
    /\ pc = "delete_parse"
    /\ Out("deleting")
    /\ parts' = Split(resource_id)
    /\ IF InRange(parts', 1) /\ InRange(parts', 3) /\ InRange(parts', 5)
       THEN pc' = "delete_init" /\ UNCHANGED exc
       ELSE Raise("delete_ret", "IndexError")
    /\ UNCHANGED <<args, env, project_id, bucket_name, resource_id,
                   aiplatform, tree, archive, tmpFile, gcsObjects, engines,
                   chunks, trace, ops, stderr, ret, exitCode>>

\* line 190: aiplatform.init, outside the try block
DeleteInit ==
    /\ pc = "delete_init"
    /\ aiplatform' = [project |-> Index(parts, 1), location |-> Index(parts, 3)]
    /\ \E ok \in BOOLEAN :
        /\ Did("init", ok)
        /\ IF ok
           THEN pc' = "delete_client" /\ UNCHANGED exc
           ELSE Raise("delete_ret", "Exception")
    /\ UNCHANGED <<args, env, project_id, bucket_name, resource_id, parts,
                   tree, archive, tmpFile, gcsObjects, engines, chunks, ops,
                   stdout, stderr, ret, exitCode>>

\* lines 193: the client is built, outside the try block
DeleteClient ==
    /\ pc = "delete_client"
    /\ \E ok \in BOOLEAN :
        /\ Did("client", ok)
        /\ IF ok
           THEN pc' = "delete_request" /\ UNCHANGED exc
           ELSE Raise("delete_ret", "Exception")
    /\ UNCHANGED <<args, env, project_id, bucket_name, resource_id, parts,
                   aiplatform, tree, archive, tmpFile, gcsObjects, engines,
                   chunks, ops, stdout, stderr, ret, exitCode>>

\* lines 195-197 and 203-205: the delete request, inside the try block
DeleteRequest ==
    /\ pc = "delete_request"
    /\ \E ok \in BOOLEAN :
        /\ Did("delete_request", ok)
        /\ IF ok
           THEN pc' = "delete_wait" /\ UNCHANGED <<stdout, ret>>
           ELSE Out("err:delete") /\ Return("delete_ret", "False")
    /\ UNCHANGED <<args, env, project_id, bucket_name, resource_id, parts,
                   aiplatform, tree, archive, tmpFile, gcsObjects, engines,
                   chunks, ops, stderr, exc, exitCode>>

\* lines 198-205: operation.result(), inside the try block
DeleteWait ==
    /\ pc = "delete_wait"
    /\ \E ok \in BOOLEAN :
        /\ Did("wait", ok)
        /\ IF ok
           THEN /\ Out("deleted")
                /\ Return("delete_ret", "True")
                /\ engines' = engines - 1
           ELSE /\ Out("err:delete")
                /\ Return("delete_ret", "False")
                /\ UNCHANGED engines
    /\ UNCHANGED <<args, env, project_id, bucket_name, resource_id, parts,
                   aiplatform, tree, archive, tmpFile, gcsObjects, chunks,
                   ops, stderr, exc, exitCode>>

\* lines 270-272
MainAfterDelete ==
    /\ pc = "delete_ret"
    /\ exc = "none"
    /\ Exit(IF ret = "True" THEN 0 ELSE 1)
    /\ UNCHANGED <<args, env, project_id, bucket_name, resource_id, parts,
                   aiplatform, tree, archive, tmpFile, gcsObjects, engines,
                   chunks, trace, ops, stdout, stderr, exc, ret>>

\* lines 261, 270 and 278-279: main has no handler around the two calls,
\* so an exception leaving them ends the interpreter with a traceback on
\* stderr and status 1
Uncaught ==
    /\ pc \in {"test_ret", "delete_ret"}
    /\ exc # "none"
    /\ stderr' = Append(stderr, "Traceback")
    /\ Exit(1)
    /\ UNCHANGED <<args, env, project_id, bucket_name, resource_id, parts,
                   aiplatform, tree, archive, tmpFile, gcsObjects, engines,
                   chunks, trace, ops, stdout, exc, ret>>

-----------------------------------------------------------------------------
(* Specifications *)

Create ==
    \/ CreateInit
    \/ BuildArchive
    \/ Upload
    \/ Unlink
    \/ CreateRequest
    \/ CreateWait
    \/ CreateReturn

Test == TestParse \/ TestInit \/ TestClient \/ TestQuery \/ TestIterate

Delete == DeleteParse \/ DeleteInit \/ DeleteClient \/ DeleteRequest \/ DeleteWait

Main == ResolveConfig \/ Dispatch \/ MainAfterCreate \/ MainAfterTest
            \/ MainAfterDelete \/ Uncaught

\* one run of the program
Next == Main \/ Create \/ Test \/ Delete

Spec == Init /\ [][Next]_vars

\* one call of one of the three functions
NextCall == Create \/ Test \/ Delete

SpecCall == InitCall /\ [][NextCall]_vars

-----------------------------------------------------------------------------
(* Vocabulary of the properties *)

Printed(line) == \E i \in DOMAIN stdout : stdout[i] = line

\* the lines that start with the error prefix
ErrorLines ==
    { "err:project_id", "err:bucket", "err:resource_id:test",
      "err:resource_id:delete", "err:create", "err:test", "err:delete" }

PrintedError == \E i \in DOMAIN stdout : stdout[i] \in ErrorLines

\* some step of the run raised
SomeStepRaised == \E i \in DOMAIN trace : ~trace[i].ok

\* the invocation sets none of --create, --quicktest, --delete
NoCommand == ~args.create /\ ~args.quicktest /\ ~args.delete

\* a non-empty value comes from the flag or from the environment
HasProject == Truthy(args.project_id) \/ Truthy(env.GOOGLE_CLOUD_PROJECT)

HasBucket == Truthy(args.bucket) \/ Truthy(env.GOOGLE_CLOUD_STORAGE_BUCKET)

Exited == pc = "exit"

-----------------------------------------------------------------------------
(* C1 *)

\* C1: test_agent_engine and delete_agent_engine never raise: when any
\* step of the call raised (initialisation, client construction, request,
\* iteration, wait), the function has printed its diagnostic and returns
\* False, and no exception leaves it.
C1_NeverRaises ==
    (pc \in {"test_ret", "delete_ret"} /\ SomeStepRaised) =>
        /\ exc = "none"
        /\ ret = "False"
        /\ Printed("err:test") \/ Printed("err:delete")

-----------------------------------------------------------------------------
(* C2 *)

\* C2 as stated: without a command flag, whatever the other inputs, main
\* makes no call, and ends with the help text and status 0.
C2_HelpWhateverTheInputs ==
    NoCommand =>
        /\ trace = <<>> /\ ops = {}
        /\ exitCode \in {NoExit, 0}
        /\ Exited => Printed("help") /\ exitCode = 0

\* C2 amended: without a command flag, and with a project id and a bucket
\* name that resolve to non-empty values, main makes no call, and ends
\* with the help text and status 0.
C2_HelpWhenConfigured ==
    (NoCommand /\ HasProject /\ HasBucket) =>
        /\ trace = <<>> /\ ops = {}
        /\ exitCode \in {NoExit, 0}
        /\ Exited => Printed("help") /\ exitCode = 0

C2_Witness ==
    /\ Exited /\ NoCommand /\ HasProject /\ HasBucket
    /\ Printed("help") /\ exitCode = 0

-----------------------------------------------------------------------------
(* C3 *)

C3_Outcome ==
    /\ trace = <<>> /\ ops = {}
    /\ exitCode \in {NoExit, 1}
    /\ Exited => exitCode = 1

\* C3 as stated: an empty resolved project id or bucket name, and every
\* invocation with --quicktest or --delete and no --resource_id, ends with
\* status 1 before any call is made.
C3_ConfigErrorsAsStated ==
    ( \/ ~HasProject
      \/ ~HasBucket
      \/ (args.quicktest \/ args.delete) /\ ~TruthyHandle(args.resource_id) )
    => C3_Outcome

\* C3 amended: an empty resolved project id or bucket name, and every
\* invocation without --create, with --quicktest or --delete, and with no
\* --resource_id, ends with status 1 before any call is made.
C3_ConfigErrors ==
    ( \/ ~HasProject
      \/ ~HasBucket
      \/ /\ ~args.create
         /\ args.quicktest \/ args.delete
         /\ ~TruthyHandle(args.resource_id) )
    => C3_Outcome

C3_Witness ==
    /\ Exited /\ exitCode = 1 /\ trace = <<>>
    /\ HasProject /\ HasBucket
    /\ ~args.create /\ args.delete
    /\ args.resource_id = [some |-> TRUE, s |-> <<>>]

-----------------------------------------------------------------------------
(* C4 *)

\* C4: a finished run has status 0 exactly when the command succeeded or
\* the help was shown, and status 1 exactly when there was a configuration
\* error, an exception during create, or a False result of test or delete.
C4_ExitCodeContract ==
    Exited =>
        /\ exitCode \in {0, 1}
        /\ exitCode = 0 <=>
              \/ ret \in {"True", "resource_name"}
              \/ Printed("help")
        /\ exitCode = 1 <=>
              \/ Printed("err:project_id") \/ Printed("err:bucket")
              \/ Printed("err:resource_id:test")
              \/ Printed("err:resource_id:delete")
              \/ Printed("err:create")
              \/ ret = "False"

-----------------------------------------------------------------------------
(* C5 *)

-----------------------------------------------------------------------------
(* C6 *)

\* C6: every run that ends with a non-zero status has printed a line with
\* the error prefix.
C6_EveryFailurePrintsError ==
    (Exited /\ exitCode # 0) => PrintedError

-----------------------------------------------------------------------------
(* C7 *)

\* the regular files below travel_concierge whose name ends in .py
PyFiles(t) ==
    { n \in t : /\ n.kind = "file"
                /\ Len(n.path) > 1
                /\ n.path[1] = TravelConcierge
                /\ n.path[Len(n.path)][2] = ".py" }

\* the metadata files present at the root
MetadataPresent(t) == { c \in {PyProject, Readme} : Exists(t, <<c>>) }

HasEntry(arcname) == \E i \in DOMAIN archive : archive[i].arcname = arcname

\* C7: the finished archive holds exactly N + M entries, N the number of
\* files ending in .py below travel_concierge and M the number of metadata
\* files present; a source entry is named by its path relative to the root
\* and a metadata entry by its bare file name.
C7_ArchiveEntries ==
    Returned("build") =>
        /\ Len(archive) =
              Cardinality(PyFiles(tree)) + Cardinality(MetadataPresent(tree))
        /\ \A n \in PyFiles(tree) : HasEntry(n.path)
        /\ \A c \in MetadataPresent(tree) : HasEntry(<<c>>)

-----------------------------------------------------------------------------
(* C8 *)

\* the steps of create_agent_engine, in the order of the source
CreateOrder == <<"init", "build", "upload", "unlink", "create_request", "wait">>

\* C8: the steps of create run in the fixed order; a step that raises is
\* the last one executed; then no handle is returned and no success line
\* printed, nothing done before is undone (an uploaded object stays in the
\* bucket), and main prints the error and exits with status 1.
C8_CreateAborts ==
    "create" \in ops =>
        /\ Len(trace) <= Len(CreateOrder)
        /\ \A i \in DOMAIN trace : trace[i].step = CreateOrder[i]
        /\ \A i \in DOMAIN trace : ~trace[i].ok => i = Len(trace)
        /\ gcsObjects = (IF Returned("upload") THEN 1 ELSE 0)
        /\ ret = "resource_name" => Len(trace) = Len(CreateOrder)
        /\ SomeStepRaised =>
              /\ ret = "none"
              /\ ~Printed("created") /\ ~Printed("success")
              /\ pc \in {"create_ret", "exit"}
              /\ Exited => exitCode = 1 /\ Printed("err:create")

C8_Witness ==
    /\ Exited /\ "create" \in ops
    /\ Failed("wait") /\ gcsObjects = 1 /\ exitCode = 1

-----------------------------------------------------------------------------
(* C9 *)

\* the number of '/'-separated segments of a handle
NumSegments(h) == 1 + Cardinality({ i \in DOMAIN h : h[i] = "/" })

\* segment k (from 0) of a handle: the characters that are no separator
\* and have exactly k separators before them
Segment(h, k) ==
    LET at == { i \in DOMAIN h :
                  /\ h[i] # "/"
                  /\ Cardinality({ j \in 1..(i - 1) : h[j] = "/" }) = k }
    IN IF at = {} THEN <<>>
       ELSE SubSeq(h, CHOOSE i \in at : \A j \in at : i <= j,
                      CHOOSE i \in at : \A j \in at : i >= j)

\* test or delete is past its parsing lines
Parsed ==
    pc \in {"test_init", "test_client", "test_request", "test_iter", "test_ret",
            "delete_init", "delete_client", "delete_request", "delete_wait",
            "delete_ret"}

\* the platform was initialised with segments 1 and 3
InitFromSegments ==
    StepCount("init") > 0 =>
        /\ aiplatform.project = Segment(resource_id, 1)
        /\ aiplatform.location = Segment(resource_id, 3)

\* C9 as stated: parsing succeeds for every handle of at least four
\* segments; a handle of fewer segments fails with IndexError before any
\* call; segments 1 and 3 are the project id and the location.
C9_FourSegmentsSuffice ==
    Parsed =>
        /\ NumSegments(resource_id) >= 4 => exc # "IndexError"
        /\ NumSegments(resource_id) < 4 => exc = "IndexError" /\ trace = <<>>
        /\ InitFromSegments

\* C9 amended: parsing succeeds for every handle of at least six segments;
\* a handle of fewer segments fails with IndexError before any call;
\* segments 1 and 3 are the project id and the location.
C9_SixSegmentsNeeded ==
    Parsed =>
        /\ NumSegments(resource_id) >= 6 => exc # "IndexError"
        /\ NumSegments(resource_id) < 6 => exc = "IndexError" /\ trace = <<>>
        /\ InitFromSegments

C9_Witness ==
    /\ pc = "delete_client"
    /\ NumSegments(resource_id) = 6
    /\ aiplatform.project = <<"P">>
    /\ aiplatform.location = <<"L">>

-----------------------------------------------------------------------------
(* C10 *)

\* the calls that go to the storage service or the platform
RemoteCalls == {"upload", "create_request", "query", "delete_request"}

\* C10: a run enters at most one operation, create before quicktest before
\* delete when several flags are set, and issues each remote call at most
\* once.
C10_OneOperationNoRetry ==
    /\ Cardinality(ops) <= 1
    /\ args.create => ops \subseteq {"create"}
    /\ (~args.create /\ args.quicktest) => ops \subseteq {"test"}
    /\ (~args.create /\ ~args.quicktest) => ops \subseteq {"delete"}
    /\ NoCommand => ops = {}
    /\ \A c \in RemoteCalls : StepCount(c) <= 1

C10_Witness ==
    /\ Exited
    /\ args.create /\ args.quicktest /\ args.delete
    /\ ops = {"create"}
    /\ Failed("upload")

====
